---- MODULE Spec2Model ----
(***************************************************************************)
(* Model of the SoX zero-crossing lookahead limiter (src/limiter.c, the    *)
(* ring-buffer revision, lines 1-414).                                     *)
(*                                                                         *)
(* Samples are integers.  The full scale SOX_SAMPLE_MAX and the page size  *)
(* are scaled down so that a buffer of a few frames can be explored; all   *)
(* comparisons and the pointer arithmetic are those of the source.         *)
(* Pointers into the ring buffer are offsets from buffer->data; the buffer *)
(* is mapped twice back to back (create_ring_buffer), so an offset p in    *)
(* 0 .. 2*size-1 names the cell p % size.                                  *)
(*                                                                         *)
(* A gain (a double in the source) is the exact fraction <<num, den>>:     *)
(* <<1, 1>> is 1.0 and <<threshold, peak>> is threshold / peak.  The       *)
(* product (double)x * gain converted back to sox_sample_t truncates       *)
(* toward zero.                                                            *)
(*                                                                         *)
(* Every cell carries, next to the sample value v, history fields that the *)
(* program does not have and never reads: k (position of the sample in the *)
(* accepted stream), s (number of the detected slice it was resolved in,   *)
(* 0 if none), ovf (that slice held an overflow), g (the gains multiplied  *)
(* into it, in order), t (the gain of the first end-of-input pass over it  *)
(* while unprocessed, <<>> if none), zc (the slicer reported a zero        *)
(* crossing at this sample).  The limiter carries four such fields: peak   *)
(* (the largest magnitude in the slice resolved last, as the buffer held   *)
(* it), loud (the number of resolved slices whose peak was above the       *)
(* threshold), failed (the ring buffer operations that returned -1 inside  *)
(* the flow or drain call made last) and steps (by how much each iteration *)
(* of the slicing loop inside that call advanced buffer->processed).       *)
(*                                                                         *)
(* sox_sample_t is a two's complement integer: its least value             *)
(* SOX_SAMPLE_MIN is -SOX_SAMPLE_MAX - 1; abs(SOX_SAMPLE_MIN) overflows    *)
(* int.  The variable build holds what abs returns for it in the build at  *)
(* hand: SOX_SAMPLE_MIN itself (the negation wraps) or the magnitude (the  *)
(* comparison was compiled without the negation).                          *)
(***************************************************************************)
EXTENDS Integers, Sequences, FiniteSets, TLC

VARIABLES pc, priv, acc, out, call, build

vars == <<pc, priv, acc, out, call, build>>

----------------------------------------------------------------------------
(* Program constants *)

NUMBER_OF_CHANNELS == 2

LOOKAHEAD_TIME == 1

\* SOX_SAMPLE_MAX, scaled from 2^31-1
SOX_SAMPLE_MAX == 100

\* the least sox_sample_t
SOX_SAMPLE_MIN == -SOX_SAMPLE_MAX - 1

\* (0.01f * SOX_SAMPLE_MAX) converted to sox_sample_t
MAX_ZERO_CROSSING_VALUE == SOX_SAMPLE_MAX \div 100

\* sizeof(sox_sample_t)
SampleBytes == 4

\* sysconf(_SC_PAGESIZE), scaled from 4096 bytes to 4 samples
PageSize == 4 * SampleBytes

NULL == -1

SOX_SUCCESS == 0

SOX_EOF == -1

----------------------------------------------------------------------------
(* Bounds of the exploration *)

\* total number of frames the caller ever supplies
MaxIn == 6

\* largest output capacity of one call, in frames
MaxOut == 2

\* largest sample rate a stream is started at (frames per second)
MaxRate == 6

\* total number of frames written by direct calls of ring_buffer_write
MaxWrite == 3

\* multiplications remembered in a cell's history field g; with the frames and
\* thresholds below a sample is 0 after that many gains below unity
MaxGains == 3

\* linear thresholds left by getopts
Thresholds == {SOX_SAMPLE_MAX \div 10}

\* the frames <<left, right>> a caller may supply
Frames == { <<-5, 0>>, <<100, 0>>, <<SOX_SAMPLE_MIN, 60>> }

\* what abs(SOX_SAMPLE_MIN) may return
AbsOfMin == {SOX_SAMPLE_MIN, -SOX_SAMPLE_MIN}

\* the frames with a silent right channel
QuietFrames == { f \in Frames : f[2] = 0 }

\* thresholds in dB a caller may write on the command line
Decibels == {-60, -40, -20, 0, 20}

\* numbers of arguments after the effect name
ArgCounts == {0, 1, 2}

Channels == {1, 2, 3}

Rates == 0 .. MaxRate

\* numbers of frames offered to one flow call
ChunkSizes == {1, 2}

\* numbers of frames offered to one flow call by a caller with large blocks
LongChunks == {2, 4}

\* output capacities of one call, in frames: none, or MaxOut
OutRooms == {0, MaxOut}

----------------------------------------------------------------------------
(* Helpers *)

min(a, b) == IF a < b THEN a ELSE b

\* abs of <stdlib.h> on an int
abs(x) == IF x = SOX_SAMPLE_MIN THEN build ELSE IF x < 0 THEN -x ELSE x

\* the absolute value of x
Magnitude(x) == IF x < 0 THEN -x ELSE x

Unity == <<1, 1>>

\* F applied to the value of x (x is evaluated once)
Then(x, F(_)) == CHOOSE y \in { F(v) : v \in {x} } : TRUE

\* (double)(x) * gain, stored back into a sox_sample_t
Scale(x, gain) ==
  IF x >= 0 THEN (x * gain[1]) \div gain[2]
  ELSE -(((-x) * gain[1]) \div gain[2])

EmptyCell ==
  [v |-> 0, k |-> 0, s |-> 0, ovf |-> FALSE, g |-> <<>>, t |-> <<>>, zc |-> FALSE]

\* the cell after *index = (double)(*index) * gain
Gained(c, gain) ==
  [c EXCEPT !.v = Scale(c.v, gain),
            !.g = IF gain = Unity \/ Len(c.g) >= MaxGains THEN c.g ELSE Append(c.g, gain)]

\* *p through the double mapping
Rd(buffer, p) == buffer.data[p % buffer.size].v

\* the cells of the half-open pointer range [from, to)
Cells(buffer, from, to) == { p % buffer.size : p \in from .. (to - 1) }

----------------------------------------------------------------------------
(* Ring buffer *)

\* create_ring_buffer that leaves a frame counted as buffered
create_ring_buffer_dirty(requested_size) ==
  [data      |-> [i \in 0 .. (requested_size \div SampleBytes) - 1 |-> EmptyCell],
   size      |-> requested_size \div SampleBytes,
   available |-> NUMBER_OF_CHANNELS,
   processed |-> 0,
   position  |-> 0]

\* l->rbuffer while no ring buffer exists (the zero-filled private area of the effect)
NoBuffer == [data |-> <<>>, size |-> 0, available |-> 0, processed |-> 0, position |-> 0]

create_ring_buffer(requested_size) ==
  [data      |-> [i \in 0 .. (requested_size \div SampleBytes) - 1 |-> EmptyCell],
   size      |-> requested_size \div SampleBytes,
   available |-> 0,
   processed |-> 0,
   position  |-> 0]

\* ring_buffer_write that stores at the read position, not after the unread samples
ring_buffer_write_front(buffer, input, count) ==
  IF count = 0 THEN <<0, buffer>>
  ELSE IF count > buffer.size - buffer.available THEN <<-1, buffer>>
  ELSE <<0, [buffer EXCEPT
               !.available = @ + count,
               !.data = [i \in DOMAIN buffer.data |->
                           LET j == (i - buffer.position) % buffer.size
                           IN IF j < count THEN input[j + 1] ELSE buffer.data[i]]]>>

\* ring_buffer_write that refuses to fill the buffer to the last sample
ring_buffer_write_strict(buffer, input, count) ==
  IF count = 0 THEN <<0, buffer>>
  ELSE IF count >= buffer.size - buffer.available THEN <<-1, buffer>>
  ELSE
    LET d0 == buffer.position + buffer.available
        destination == IF d0 >= buffer.size THEN d0 - buffer.size ELSE d0
    IN <<0, [buffer EXCEPT
               !.available = @ + count,
               !.data = [i \in DOMAIN buffer.data |->
                           LET j == (i - destination) % buffer.size
                           IN IF j < count THEN input[j + 1] ELSE buffer.data[i]]]>>

\* input is the sequence of cells to store; the result is <<status, buffer>>
ring_buffer_write(buffer, input, count) ==
  IF count = 0 THEN <<0, buffer>>
  ELSE IF count > buffer.size - buffer.available THEN <<-1, buffer>>
  ELSE
    LET d0 == buffer.position + buffer.available
        destination == IF d0 >= buffer.size THEN d0 - buffer.size ELSE d0
    IN <<0, [buffer EXCEPT
               !.available = @ + count,
               !.data = [i \in DOMAIN buffer.data |->
                           LET j == (i - destination) % buffer.size
                           IN IF j < count THEN input[j + 1] ELSE buffer.data[i]]]>>

ring_buffer_read(buffer, count) ==
  IF count > buffer.available THEN NULL ELSE buffer.position

\* ring_buffer_pop that does not advance the read position
ring_buffer_pop_stay(buffer, count) ==
  IF count > buffer.processed THEN <<-1, buffer>>
  ELSE <<0, [buffer EXCEPT !.available = @ - count, !.processed = @ - count]>>

\* ring_buffer_pop that does not bring the read position back into the array
ring_buffer_pop_nowrap(buffer, count) ==
  IF count > buffer.processed THEN <<-1, buffer>>
  ELSE <<0, [buffer EXCEPT !.position  = @ + count,
                           !.available = @ - count,
                           !.processed = @ - count]>>

ring_buffer_pop(buffer, count) ==
  IF count > buffer.processed THEN <<-1, buffer>>
  ELSE
    LET p0 == buffer.position + count
    IN <<0, [buffer EXCEPT
               !.position  = IF p0 >= buffer.size THEN p0 - buffer.size ELSE p0,
               !.available = @ - count,
               !.processed = @ - count]>>

\* ring_buffer_mark_processed that also refuses to mark all of the unprocessed samples
ring_buffer_mark_processed_strict(buffer, count) ==
  IF count >= buffer.available - buffer.processed THEN <<-1, buffer>>
  ELSE <<0, [buffer EXCEPT !.processed = @ + count]>>

\* ring_buffer_mark_processed that compares count with all the buffered samples
ring_buffer_mark_processed_available(buffer, count) ==
  IF count > buffer.available THEN <<-1, buffer>>
  ELSE <<0, [buffer EXCEPT !.processed = @ + count]>>

ring_buffer_mark_processed(buffer, count) ==
  IF count > buffer.available - buffer.processed THEN <<-1, buffer>>
  ELSE <<0, [buffer EXCEPT !.processed = @ + count]>>

\* free space that forgets the samples waiting to be read
ring_buffer_get_free_unread(buffer) == buffer.size - (buffer.available - buffer.processed)

ring_buffer_get_free(buffer) == buffer.size - buffer.available

ring_buffer_get_start_unprocessed(buffer) ==
  LET result == buffer.position + buffer.processed
  IN IF result >= buffer.size THEN result - buffer.size ELSE result

ring_buffer_get_unprocessed(buffer) == buffer.available - buffer.processed

\* memcpy(obuf, from, count): the cells copied out, in order
CopyOut(buffer, from, count) ==
  [j \in 1 .. count |-> buffer.data[(from + j - 1) % buffer.size]]

----------------------------------------------------------------------------
(* Zero-crossing slicer and gain computer *)

\* the channels other than the reference one are loud in the frame at zero_crossing
Fake(buffer, zero_crossing) ==
  \E k \in (zero_crossing + 1) .. (zero_crossing + NUMBER_OF_CHANNELS - 1) :
     abs(Rd(buffer, k)) > MAX_ZERO_CROSSING_VALUE

\* the for loop of find_next_zero_crossing; zero_crossing = ibuf + i - NUMBER_OF_CHANNELS
RECURSIVE ZeroCrossingScan(_, _, _, _)
ZeroCrossingScan(buffer, ibuf, size, i) ==
  LET zero_crossing == ibuf + i - NUMBER_OF_CHANNELS
  IN IF ~(i < size \div NUMBER_OF_CHANNELS) THEN NULL
     ELSE IF /\ Rd(buffer, zero_crossing) <= 0
             /\ Rd(buffer, zero_crossing + NUMBER_OF_CHANNELS) > 0
             /\ ~Fake(buffer, zero_crossing)
          THEN zero_crossing + NUMBER_OF_CHANNELS
          ELSE ZeroCrossingScan(buffer, ibuf, size, i + NUMBER_OF_CHANNELS)

\* find_next_zero_crossing that reports the sample before the crossing frame
find_next_zero_crossing_early(buffer, ibuf, size) ==
  LET zero_crossing == IF size = 0 THEN NULL
                       ELSE ZeroCrossingScan(buffer, ibuf, size, NUMBER_OF_CHANNELS)
  IN IF zero_crossing = NULL THEN NULL ELSE zero_crossing - 1

\* pointer to the reported crossing, or NULL
find_next_zero_crossing(buffer, ibuf, size) ==
  IF size = 0 THEN NULL
  ELSE ZeroCrossingScan(buffer, ibuf, size, NUMBER_OF_CHANNELS)

\* the for loop of find_max_overflow, with its locals max and max_value
RECURSIVE MaxOverflowScan(_, _, _, _, _, _)
MaxOverflowScan(buffer, overflow, end, limit, max, max_value) ==
  IF ~(overflow < end) THEN max
  ELSE LET current_value == abs(Rd(buffer, overflow))
       IN IF current_value > limit /\ current_value > max_value
          THEN MaxOverflowScan(buffer, overflow + 1, end, limit, overflow, current_value)
          ELSE MaxOverflowScan(buffer, overflow + 1, end, limit, max, max_value)

\* find_max_overflow that stops at the first sample above limit
find_first_overflow(buffer, ibuf, end, limit) ==
  LET over == { p \in ibuf .. (end - 1) : abs(Rd(buffer, p)) > limit }
  IN IF over = {} THEN NULL ELSE CHOOSE p \in over : \A q \in over : p <= q

\* pointer to the largest sample above limit in [ibuf, end), or NULL
find_max_overflow(buffer, ibuf, end, limit) ==
  MaxOverflowScan(buffer, ibuf, end, limit, NULL, 0)

\* the largest magnitude of the samples in [ibuf, end), ibuf < end
Peak(buffer, ibuf, end) ==
  LET magnitudes == { Magnitude(Rd(buffer, p)) : p \in ibuf .. (end - 1) }
  IN CHOOSE m \in magnitudes : \A n \in magnitudes : n <= m

\* one iteration of the while loop of process_our_buffer, zero_cross # NULL
ResolveSlice(l, zero_cross) ==
  LET buffer == l.rbuffer
      first  == ring_buffer_get_start_unprocessed(buffer)
      slices == l.slices + 1
      max    == find_max_overflow(buffer, first, zero_cross, l.threshold)
      gain   == IF max # NULL THEN <<l.threshold, abs(Rd(buffer, max))>> ELSE Unity
      span   == Cells(buffer, first, zero_cross)
      data   == [i \in DOMAIN buffer.data |->
                   IF i \in span
                   THEN [Gained(buffer.data[i], gain) EXCEPT !.s = slices, !.ovf = (max # NULL)]
                   ELSE IF i = zero_cross % buffer.size
                        THEN [buffer.data[i] EXCEPT !.zc = TRUE]
                        ELSE buffer.data[i]]
      marked == ring_buffer_mark_processed([buffer EXCEPT !.data = data], zero_cross - first)
      peak   == Peak(buffer, first, zero_cross)
  IN [l EXCEPT !.peak    = peak,
               !.loud    = IF peak > l.threshold THEN @ + 1 ELSE @,
               !.failed  = IF marked[1] = -1 THEN @ \cup {"mark_processed"} ELSE @,
               !.steps   = Append(@, marked[2].processed - buffer.processed),
               !.slices  = slices,
               !.actions = IF max # NULL THEN @ + 1 ELSE @,
               !.gain    = gain,
               !.rbuffer = marked[2]]

RECURSIVE process_our_buffer(_)
process_our_buffer(l) ==
  LET zero_cross == find_next_zero_crossing(l.rbuffer,
                       ring_buffer_get_start_unprocessed(l.rbuffer),
                       ring_buffer_get_unprocessed(l.rbuffer))
  IN IF zero_cross = NULL THEN l
     ELSE process_our_buffer(ResolveSlice(l, zero_cross))

----------------------------------------------------------------------------
(* Effect handlers.  Each returns a record: status, the limiter afterwards *)
(* and what the handler wrote through its out-parameters.                  *)

\* 10 to the power n, n >= 0
RECURSIVE Pow10(_)
Pow10(n) == IF n = 0 THEN 1 ELSE 10 * Pow10(n - 1)

\* DB_CO(g) = g > -90 ? 10^(g * 0.05) : 0 as a fraction, for g a multiple of 20
DB_CO(g) ==
  IF g > -90
  THEN IF g >= 0 THEN <<Pow10(g \div 20), 1>> ELSE <<1, Pow10((-g) \div 20)>>
  ELSE <<0, 1>>

\* argc counts the arguments after the effect name; scanned tells that sscanf
\* read a float from argv[0], threshold is that float
getopts(l, argc, scanned, threshold) ==
  IF argc # 1 THEN [status |-> SOX_EOF, l |-> l]
  ELSE IF ~scanned THEN [status |-> SOX_EOF, l |-> l]
  ELSE IF threshold > 0 \/ threshold < -40 THEN [status |-> SOX_EOF, l |-> l]
  ELSE [status |-> SOX_SUCCESS,
        l |-> [l EXCEPT !.threshold =
                 (DB_CO(threshold)[1] * SOX_SAMPLE_MAX) \div DB_CO(threshold)[2]]]

start(l, channels, rate, mapped) ==
  IF channels # NUMBER_OF_CHANNELS THEN [status |-> SOX_EOF, l |-> l]
  ELSE
    LET l1          == [l EXCEPT !.gain = Unity, !.actions = 0, !.slices = 0]
        buffer_size == LOOKAHEAD_TIME * rate * NUMBER_OF_CHANNELS
        bytes       == buffer_size * SampleBytes
        real_size   == IF bytes % PageSize # 0
                       THEN bytes + PageSize - (bytes % PageSize)
                       ELSE bytes
    IN IF real_size % (SampleBytes * NUMBER_OF_CHANNELS) # 0
       THEN [status |-> SOX_EOF, l |-> l1]
       ELSE IF buffer_size > 0 /\ mapped
            THEN [status |-> SOX_SUCCESS,
                  l |-> [l1 EXCEPT !.rbuffer = create_ring_buffer(real_size)]]
            ELSE [status |-> SOX_EOF, l |-> l1]

\* ibuf holds the isamp cells offered; osamp is the room in obuf
flow(l, ibuf, isamp, osamp) ==
  LET buffer == l.rbuffer
      odone  == IF buffer.processed > 0 THEN min(buffer.processed, osamp) ELSE 0
      obuf   == IF odone > 0
                THEN CopyOut(buffer, ring_buffer_read(buffer, odone), odone)
                ELSE <<>>
      pop    == IF odone > 0 THEN ring_buffer_pop(buffer, odone) ELSE <<0, buffer>>
      popped == pop[2]
      idone  == min(ring_buffer_get_free(popped), isamp)
      wrote  == ring_buffer_write(popped, ibuf, idone)
      failed == IF pop[1] = -1 THEN {"pop"} ELSE {}
  IN IF wrote[1] = -1
     THEN [status |-> SOX_EOF,
           l |-> [l EXCEPT !.rbuffer = popped, !.failed = failed \cup {"write"},
                           !.steps = <<>>],
           idone |-> isamp, odone |-> odone, obuf |-> obuf]
     ELSE [status |-> SOX_SUCCESS,
           l |-> process_our_buffer([l EXCEPT !.rbuffer = wrote[2], !.failed = failed,
                                         !.steps = <<>>]),
           idone |-> idone, odone |-> odone, obuf |-> obuf]

\* the loop "Process remaining data using current gain" of drain
GainRemaining(buffer, gain) ==
  LET first == ring_buffer_get_start_unprocessed(buffer)
      span  == Cells(buffer, first, first + buffer.available)
      tail  == Cells(buffer, first, first + ring_buffer_get_unprocessed(buffer))
  IN [buffer EXCEPT !.data =
        [i \in DOMAIN buffer.data |->
           IF i \in span
           THEN [Gained(buffer.data[i], gain) EXCEPT
                   !.t = IF i \in tail /\ @ = <<>> THEN gain ELSE @]
           ELSE buffer.data[i]]]

\* "Copy processed buffer to output" of drain, for the buffer b2 it finds
DrainCopy(l1, b2, osamp) ==
  LET odone  == IF b2.processed > 0 THEN min(b2.processed, osamp) ELSE 0
      obuf   == IF odone > 0
                THEN CopyOut(b2, ring_buffer_read(b2, odone), odone)
                ELSE <<>>
      pop    == IF b2.processed > 0 THEN ring_buffer_pop(b2, odone) ELSE <<0, b2>>
  IN [status |-> SOX_SUCCESS,
      l |-> [l1 EXCEPT !.rbuffer = pop[2],
                       !.failed  = IF pop[1] = -1 THEN @ \cup {"pop"} ELSE @],
      odone |-> odone, obuf |-> obuf]

\* "Process remaining data using current gain" of drain; the source drops the
\* status of ring_buffer_mark_processed and goes on
DrainRemaining(l1, osamp) ==
  LET b1 == l1.rbuffer
  IN IF b1.available > 0
     THEN Then(ring_buffer_mark_processed(GainRemaining(b1, l1.gain), b1.available),
               LAMBDA marked :
                 DrainCopy([l1 EXCEPT !.failed = IF marked[1] = -1
                                                 THEN @ \cup {"mark_processed"} ELSE @],
                           marked[2], osamp))
     ELSE DrainCopy(l1, b1, osamp)

drain(l, osamp) ==
  Then(process_our_buffer([l EXCEPT !.failed = {}, !.steps = <<>>]),
       LAMBDA l1 : DrainRemaining(l1, osamp))

\* delete_ring_buffer reads buffer->data and buffer->size before it unmaps and
\* frees; fault tells that there was no ring buffer behind l->rbuffer
stop(l) ==
  IF l.rbuffer = NoBuffer
  THEN [status |-> SOX_SUCCESS, l |-> l, fault |-> TRUE]
  ELSE [status |-> SOX_SUCCESS, l |-> [l EXCEPT !.rbuffer = NoBuffer], fault |-> FALSE]

----------------------------------------------------------------------------
(* The session *)

NoCall == [op |-> "none", isamp |-> 0, osamp |-> 0, idone |-> 0, odone |-> 0,
           status |-> SOX_SUCCESS]

\* the cells of an offered chunk: sample values in stream order, numbered from base + 1
Interleave(frames, base) ==
  [j \in 1 .. NUMBER_OF_CHANNELS * Len(frames) |->
     [EmptyCell EXCEPT
        !.v = frames[((j - 1) \div NUMBER_OF_CHANNELS) + 1][((j - 1) % NUMBER_OF_CHANNELS) + 1],
        !.k = base + j]]

Buffer == priv.rbuffer

Values(cells) == [j \in 1 .. Len(cells) |-> cells[j].v]

Init ==
  /\ pc = "configured"
  /\ priv \in [threshold : Thresholds, gain : {<<0, 1>>}, rbuffer : {NoBuffer},
            actions : {0}, slices : {0}, peak : {0}, loud : {0}, failed : {{}},
            steps : {<<>>}]
  /\ acc = <<>>
  /\ out = <<>>
  /\ call = NoCall
  /\ build \in AbsOfMin

\* a start call for a stream of the given sample rate
StartCall(rate) ==
  /\ pc = "configured"
  /\ \E channels \in Channels, mapped \in BOOLEAN :
       \E r \in {start(priv, channels, rate, mapped)} :
          /\ priv' = r.l
          /\ pc' = IF r.status = SOX_SUCCESS THEN "flow" ELSE "failed"
          /\ call' = [NoCall EXCEPT !.op = "start", !.isamp = channels,
                                    !.osamp = rate, !.status = r.status]
  /\ UNCHANGED <<acc, out, build>>

Start == \E rate \in Rates : StartCall(rate)

\* a flow call offering frames and room for frames_per_out frames of output
FlowCall(frames, frames_per_out) ==
  /\ pc = "flow"
  /\ Len(acc) + NUMBER_OF_CHANNELS * Len(frames) <= NUMBER_OF_CHANNELS * MaxIn
  /\ \E ibuf \in {Interleave(frames, Len(acc))} :
       \E r \in {flow(priv, ibuf, Len(ibuf), NUMBER_OF_CHANNELS * frames_per_out)} :
          /\ priv' = r.l
          /\ acc' = acc \o [j \in 1 .. r.idone |-> ibuf[j].v]
          /\ out' = out \o r.obuf
          /\ call' = [op |-> "flow", isamp |-> Len(ibuf),
                      osamp |-> NUMBER_OF_CHANNELS * frames_per_out,
                      idone |-> r.idone, odone |-> r.odone, status |-> r.status]
  /\ pc' = "flow"
  /\ UNCHANGED build

Flow ==
  \E n \in ChunkSizes, frames_per_out \in OutRooms :
     \E frames \in [1 .. n -> Frames] : FlowCall(frames, frames_per_out)

\* flow calls of a caller whose right channel is silent
FlowQuiet ==
  \E n \in ChunkSizes, frames_per_out \in OutRooms :
     \E frames \in [1 .. n -> QuietFrames] : FlowCall(frames, frames_per_out)

\* flow calls of a caller with large blocks whose right channel is silent
FlowLong ==
  \E n \in LongChunks, frames_per_out \in OutRooms :
     \E frames \in [1 .. n -> QuietFrames] : FlowCall(frames, frames_per_out)

DrainCall(frames_per_out) ==
  /\ pc \in {"flow", "drain"}
  /\ \E r \in {drain(priv, NUMBER_OF_CHANNELS * frames_per_out)} :
        /\ priv' = r.l
        /\ out' = out \o r.obuf
        /\ call' = [op |-> "drain", isamp |-> 0,
                    osamp |-> NUMBER_OF_CHANNELS * frames_per_out,
                    idone |-> 0, odone |-> r.odone, status |-> r.status]
  /\ pc' = "drain"
  /\ UNCHANGED <<acc, build>>

Drain == \E frames_per_out \in OutRooms : DrainCall(frames_per_out)

\* a drain call that is given room
DrainRoom == \E frames_per_out \in OutRooms \ {0} : DrainCall(frames_per_out)

\* what a read through a null or never assigned l->rbuffer ends in: the
\* process is killed, or munmap and free are given what the pointer held
Faults == {"crashed", "corrupted"}

Stop ==
  /\ pc \in {"failed", "flow", "drain"}
  /\ \E r \in {stop(priv)} :
       /\ priv' = r.l
       /\ pc' \in IF r.fault THEN Faults ELSE {"stopped"}
       /\ call' = [NoCall EXCEPT !.op = "stop", !.status = r.status]
  /\ UNCHANGED <<acc, out, build>>

Next == Start \/ Flow \/ Drain \/ Stop

Spec == Init /\ [][Next]_vars

QuietNext == Start \/ FlowQuiet \/ Drain

SliceNext == Start \/ FlowLong \/ Drain

\* The session of a caller with large blocks
SliceSpec == Init /\ [][SliceNext]_vars

\* The session from the command line on
ConfigInit ==
  /\ pc = "created"
  /\ priv = [threshold |-> 0, gain |-> <<0, 1>>, rbuffer |-> NoBuffer,
             actions |-> 0, slices |-> 0, peak |-> 0, loud |-> 0, failed |-> {},
             steps |-> <<>>]
  /\ acc = <<>>
  /\ out = <<>>
  /\ call = NoCall
  /\ build \in AbsOfMin

Getopts ==
  /\ pc = "created"
  /\ \E argc \in ArgCounts, scanned \in BOOLEAN, threshold \in Decibels :
       \E r \in {getopts(priv, argc, scanned, threshold)} :
          /\ priv' = r.l
          /\ pc' = IF r.status = SOX_SUCCESS THEN "configured" ELSE "rejected"
          /\ call' = [NoCall EXCEPT !.op = "getopts", !.isamp = threshold,
                                    !.osamp = argc,
                                    !.idone = IF scanned THEN 1 ELSE 0,
                                    !.status = r.status]
  /\ UNCHANGED <<acc, out, build>>

ConfigNext == Getopts \/ Start \/ FlowQuiet \/ Drain

ConfigSpec == ConfigInit /\ [][ConfigNext]_vars

\* The ring buffer operations called one by one on the buffer that start
\* created.  call.status holds what the operation returned.

\* sample counts passed to ring_buffer_read, ring_buffer_pop and ring_buffer_mark_processed
Counts == 0 .. MaxOut

RingCall(op, count, result, buffer) ==
  /\ call' = [NoCall EXCEPT !.op = op, !.isamp = count, !.status = result]
  /\ priv' = [priv EXCEPT !.rbuffer = buffer]
  /\ pc' = "flow"
  /\ UNCHANGED <<out, build>>

Write ==
  /\ pc = "flow"
  /\ \E n \in {0} \cup ChunkSizes : \E frames \in [1 .. n -> Frames] :
       /\ Len(acc) + NUMBER_OF_CHANNELS * n <= NUMBER_OF_CHANNELS * MaxWrite
       /\ \E input \in {Interleave(frames, Len(acc))} :
            \E r \in {ring_buffer_write(Buffer, input, Len(input))} :
               /\ RingCall("write", Len(input), r[1], r[2])
               /\ acc' = IF r[1] = 0 THEN acc \o Values(input) ELSE acc

Read ==
  /\ pc = "flow"
  /\ \E count \in Counts :
       RingCall("read", count, ring_buffer_read(Buffer, count), Buffer)
  /\ UNCHANGED acc

Pop ==
  /\ pc = "flow"
  /\ \E count \in Counts : \E r \in {ring_buffer_pop(Buffer, count)} :
       RingCall("pop", count, r[1], r[2])
  /\ UNCHANGED acc

MarkProcessed ==
  /\ pc = "flow"
  /\ \E count \in Counts : \E r \in {ring_buffer_mark_processed(Buffer, count)} :
       RingCall("mark_processed", count, r[1], r[2])
  /\ UNCHANGED acc

\* find_next_zero_crossing over the unprocessed region, as process_our_buffer calls it
Scan ==
  /\ pc = "flow"
  /\ RingCall("scan", ring_buffer_get_unprocessed(Buffer),
              find_next_zero_crossing(Buffer, ring_buffer_get_start_unprocessed(Buffer),
                                      ring_buffer_get_unprocessed(Buffer)),
              Buffer)
  /\ UNCHANGED acc

\* start for a buffer that the MaxWrite frames written can fill
RingStart == \E rate \in 0 .. MaxWrite : StartCall(rate)

RingNext == RingStart \/ Write \/ Read \/ Pop \/ MarkProcessed \/ Scan

RingSpec == Init /\ [][RingNext]_vars

\* a caller that, once the input has ended, keeps calling drain with room
FairSpec == Init /\ [][QuietNext]_vars /\ WF_vars(DrainRoom)

----------------------------------------------------------------------------
(* Properties *)

\* the cells a call finds buffered, oldest first
Buffered(buffer) == CopyOut(buffer, buffer.position, buffer.available)

\* C10: start with a channel count other than 2 fails and leaves no ring
\* buffer; a start that succeeds had 2 channels and leaves gain 1.0, both
\* counters 0 and an empty ring buffer of a whole number of frames.
C10_Start ==
  call.op = "start" =>
    /\ call.isamp # NUMBER_OF_CHANNELS =>
         call.status = SOX_EOF /\ pc = "failed" /\ Buffer = NoBuffer
    /\ call.status = SOX_SUCCESS =>
         /\ call.isamp = NUMBER_OF_CHANNELS
         /\ pc = "flow"
         /\ priv.gain = Unity /\ priv.actions = 0 /\ priv.slices = 0
         /\ Buffer # NoBuffer
         /\ Buffer.available = 0 /\ Buffer.processed = 0
         /\ Buffer.size > 0 /\ Buffer.size % NUMBER_OF_CHANNELS = 0

C10_Started == call.op = "start" /\ call.status = SOX_SUCCESS /\ Buffer.size > 0

\* C9: a flow call emits exactly min(processed, osamp) samples, the front of
\* the processed prefix as it stood on entry, then accepts exactly
\* min(free space after that pop, isamp) samples, and reports success also
\* when it accepted less than it was offered.
C9_FlowCounts ==
  [][ (pc = "flow" /\ call'.op = "flow") =>
        LET odone == min(Buffer.processed, call'.osamp)
            idone == min(Buffer.size - (Buffer.available - odone), call'.isamp)
        IN /\ call'.odone = odone
           /\ call'.idone = idone
           /\ call'.status = SOX_SUCCESS
           /\ out' = out \o SubSeq(Buffered(Buffer), 1, odone)
           /\ Len(acc') = Len(acc) + idone
           /\ Buffer'.available = Buffer.available - odone + idone ]_vars

C9_Backpressure ==
  /\ call.op = "flow" /\ call.status = SOX_SUCCESS
  /\ 0 < call.idone /\ call.idone < call.isamp

\* C16: getopts given one argument that reads as a number accepts it exactly
\* when it lies in (-40, 0], and then leaves 0 < threshold <= SOX_SAMPLE_MAX.
C16_Configure ==
  [][ (call'.op = "getopts" /\ call'.osamp = 1 /\ call'.idone = 1) =>
        /\ call'.status = SOX_SUCCESS <=> (-40 < call'.isamp /\ call'.isamp <= 0)
        /\ call'.status = SOX_SUCCESS =>
             (0 < priv'.threshold /\ priv'.threshold <= SOX_SAMPLE_MAX) ]_vars

\* C11: a stop that follows a failed start ends the session in order; it
\* reads and releases no ring buffer.
C11_StopAfterFailedStart ==
  [][ (pc = "failed" /\ call'.op = "stop") => pc' = "stopped" ]_vars

\* a ring buffer exists
Running == pc \in {"flow", "drain"}

\* C12: while a ring buffer exists, 0 <= processed <= available <= size and
\* the read position is an index of the backing array.
C12_RingBufferInvariant ==
  Running =>
    /\ 0 <= Buffer.processed /\ Buffer.processed <= Buffer.available
    /\ Buffer.available <= Buffer.size
    /\ 0 <= Buffer.position /\ Buffer.position < Buffer.size
    /\ DOMAIN Buffer.data = 0 .. Buffer.size - 1

C12_FullAndWrapped ==
  /\ call.op = "write" /\ call.status = 0 /\ call.isamp > 0
  /\ Buffer.available = Buffer.size /\ Buffer.processed > 0 /\ Buffer.position > 0

\* the cell at logical offset j from the read position
Logical(buffer, j) == buffer.data[(buffer.position + j) % buffer.size]

\* C13: ring_buffer_write succeeds exactly when count <= size - available; it
\* then stores the samples at the logical offsets available .. available +
\* count - 1, adds count to available and leaves processed, the read position
\* and every other cell as they were.
C13_Write ==
  [][ call'.op = "write" =>
        LET count == call'.isamp
        IN /\ call'.status \in {0, -1}
           /\ call'.status = 0 <=> count <= Buffer.size - Buffer.available
           /\ call'.status = 0 =>
                /\ Buffer'.available = Buffer.available + count
                /\ Buffer'.processed = Buffer.processed
                /\ Buffer'.position = Buffer.position
                /\ Buffer'.size = Buffer.size
                /\ Len(acc') = Len(acc) + count
                /\ \A j \in 0 .. Buffer.size - 1 :
                     Logical(Buffer', j) =
                       IF Buffer.available <= j /\ j < Buffer.available + count
                       THEN [EmptyCell EXCEPT
                               !.v = acc'[Len(acc) + j - Buffer.available + 1],
                               !.k = Len(acc) + j - Buffer.available + 1]
                       ELSE Logical(Buffer, j) ]_vars

C13_WroteAcrossEnd ==
  /\ call.op = "write" /\ call.status = 0 /\ call.isamp > 0
  /\ Buffer.position + Buffer.available - call.isamp < Buffer.size
  /\ Buffer.position + Buffer.available > Buffer.size

\* C14: ring_buffer_write, ring_buffer_mark_processed and ring_buffer_pop
\* fail exactly on a count out of range and then change nothing; a pop that
\* succeeds takes count from available and processed and advances the read
\* position by count modulo size; a mark that succeeds adds count to processed.
C14_GuardedOps ==
  [][ LET count == call'.isamp
      IN /\ call'.op \in {"write", "pop", "mark_processed"} =>
              /\ call'.status \in {0, -1}
              /\ call'.status = -1 => Buffer' = Buffer
         /\ call'.op = "write" =>
              (call'.status = -1 <=> count > Buffer.size - Buffer.available)
         /\ call'.op = "mark_processed" =>
              /\ call'.status = -1 <=> count > Buffer.available - Buffer.processed
              /\ call'.status = 0 =>
                   Buffer' = [Buffer EXCEPT !.processed = @ + count]
         /\ call'.op = "pop" =>
              /\ call'.status = -1 <=> count > Buffer.processed
              /\ call'.status = 0 =>
                   Buffer' = [Buffer EXCEPT
                                !.available = @ - count,
                                !.processed = @ - count,
                                !.position  = (@ + count) % Buffer.size] ]_vars

C14_PopRejected ==
  /\ call.op = "pop" /\ call.status = -1
  /\ call.isamp > Buffer.processed /\ call.isamp <= Buffer.available
  /\ Buffer.processed > 0 /\ Buffer.position > 0

\* C15: ring_buffer_read returns NULL when count > processed, the read
\* position when count <= processed, and changes nothing.
C15_PeekProcessedPrefix ==
  [][ call'.op = "read" =>
        /\ Buffer' = Buffer
        /\ call'.isamp > Buffer.processed => call'.status = NULL
        /\ call'.isamp <= Buffer.processed => call'.status = Buffer.position ]_vars

\* in the region of size samples at ibuf: the reference channel at frame i
Reference(buffer, ibuf, i) == Rd(buffer, ibuf + NUMBER_OF_CHANNELS * i)

\* the reference channel goes from <= 0 at frame i - 1 to > 0 at frame i
Rising(buffer, ibuf, i) ==
  Reference(buffer, ibuf, i - 1) <= 0 /\ Reference(buffer, ibuf, i) > 0

\* the pointer to the first frame of I, NULL if I is empty
FirstFrame(ibuf, I) ==
  IF I = {} THEN NULL
  ELSE ibuf + NUMBER_OF_CHANNELS * (CHOOSE i \in I : \A j \in I : i <= j)

\* the region the last scan was given
ScanFrom == ring_buffer_get_start_unprocessed(Buffer)

ScanFrames == call.isamp \div NUMBER_OF_CHANNELS

\* C18: find_next_zero_crossing over a region of n frames returns the first
\* frame i, 1 <= i < n, at which the reference channel rises through zero
\* and which the scan does not reject as fake, and NULL only if there is none.
C18_FindNextCrossing ==
  call.op = "scan" =>
    call.status =
      FirstFrame(ScanFrom,
                 { i \in 1 .. ScanFrames - 1 :
                     /\ Rising(Buffer, ScanFrom, i)
                     /\ ~Fake(Buffer, ScanFrom + NUMBER_OF_CHANNELS * (i - 1)) })

\* C17: when flow returns, no frame i >= 1 of the unprocessed region is one
\* at which the reference channel rises through zero without the crossing
\* being rejected as fake: every slice that the buffered samples determine
\* has been gained and marked processed.
C17_FlowExhausts ==
  (call.op = "flow" /\ call.status = SOX_SUCCESS) =>
    \A i \in 1 .. (ring_buffer_get_unprocessed(Buffer) \div NUMBER_OF_CHANNELS) - 1 :
       ~(/\ Rising(Buffer, ScanFrom, i)
         /\ ~Fake(Buffer, ScanFrom + NUMBER_OF_CHANNELS * (i - 1)))

\* C20: once a slice has been resolved, gain is threshold / P if the largest
\* magnitude P of that slice is above threshold and exactly 1.0 otherwise;
\* so 0 < gain <= 1 while the limiter runs, actions counts the slices with
\* P above threshold and slices counts every slice.
C20_GainState ==
  Running =>
    /\ 0 < priv.gain[1] /\ priv.gain[1] <= priv.gain[2]
    /\ priv.actions <= priv.slices
    /\ priv.actions = priv.loud
    /\ priv.slices > 0 =>
         priv.gain = IF priv.peak > priv.threshold
                     THEN <<priv.threshold, priv.peak>>
                     ELSE Unity

\* a channel other than the reference one is louder than 1% of full scale at frame i
Loud(buffer, ibuf, i) ==
  \E c \in 1 .. NUMBER_OF_CHANNELS - 1 :
     Magnitude(Rd(buffer, ibuf + NUMBER_OF_CHANNELS * i + c)) > MAX_ZERO_CROSSING_VALUE

\* the frames the loop of find_next_zero_crossing looks at
Scanned(size) ==
  { i \in 1 .. size : NUMBER_OF_CHANNELS * i < size \div NUMBER_OF_CHANNELS }

\* C19: of the rising frames the scan looks at, it rejects exactly those with
\* another channel loud at that frame, and reports the first one left.
C19_FakeRejection ==
  call.op = "scan" =>
    call.status =
      FirstFrame(ScanFrom,
                 { i \in Scanned(call.isamp) :
                     Rising(Buffer, ScanFrom, i) /\ ~Loud(Buffer, ScanFrom, i) })

\* x after the gains of gs, in order
RECURSIVE ScaleAll(_, _)
ScaleAll(x, gs) ==
  IF gs = <<>> THEN x ELSE ScaleAll(Scale(x, Head(gs)), Tail(gs))

\* C2: the k-th emitted sample is the k-th accepted sample with the gains
\* applied to it, the buffered samples are the accepted samples that follow,
\* in order: nothing is dropped, duplicated or reordered.
C2_Fifo ==
  Running =>
    /\ Len(acc) = Len(out) + Buffer.available
    /\ \A k \in 1 .. Len(out) :
         out[k].k = k /\ out[k].v = ScaleAll(acc[k], out[k].g)
    /\ \A j \in 1 .. Buffer.available :
         Buffered(Buffer)[j].k = Len(out) + j

C2_GainedEmitted ==
  /\ Running /\ Buffer.available > 0 /\ Buffer.position > 0
  /\ \E k \in 1 .. Len(out) : out[k].g # <<>> /\ out[k].v # acc[k]

\* C3: an emitted sample of a slice in which an overflow was detected has
\* absolute value at most threshold.
C3_GainBound ==
  \A k \in 1 .. Len(out) :
     (out[k].s # 0 /\ out[k].ovf) => Magnitude(out[k].v) <= priv.threshold

C3_PeakEmitted ==
  \E k \in 1 .. Len(out) :
     /\ out[k].s # 0 /\ out[k].ovf
     /\ Magnitude(acc[k]) > priv.threshold /\ Magnitude(out[k].v) = priv.threshold

\* C4: an emitted sample of a detected slice without overflow equals the
\* accepted sample at the same stream position.
C4_UnityPassThrough ==
  \A k \in 1 .. Len(out) :
     (out[k].s # 0 /\ ~out[k].ovf) => out[k].v = acc[out[k].k]

\* C5: the emitted samples of one detected slice carry the same gains, and
\* where the gains of two neighbouring emitted samples differ the later
\* one is a sample at which the slicer reported a zero crossing.
C5_SliceAtomicity ==
  /\ \A i, j \in 1 .. Len(out) :
       (out[i].s # 0 /\ out[i].s = out[j].s) => out[i].g = out[j].g
  /\ \A k \in 1 .. Len(out) - 1 :
       out[k].g # out[k + 1].g => out[k + 1].zc

\* C6: an emitted sample of the tail left unprocessed at end of input is the
\* accepted sample multiplied once by the gain current at the first drain.
C6_DrainTail ==
  \A k \in 1 .. Len(out) :
     out[k].t # <<>> => out[k].v = Scale(acc[out[k].k], out[k].t)

\* the last call was a drain with room that told the caller it is done: the
\* effect chain takes SOX_EOF or no sample produced as the end of the drain
IsFinal ==
  /\ call.op = "drain" /\ call.osamp > 0
  /\ (call.status = SOX_EOF \/ call.odone = 0)

\* C7: once the input has ended, drain calls with room lead to a drain call
\* that reports the end; it is reported only when every buffered sample has
\* been emitted, and every later drain call emits nothing and leaves the
\* buffer empty, so it reports the end again.
C7_DrainFinality ==
  /\ Running ~> IsFinal
  /\ [](IsFinal => Buffer.available = 0 /\ Len(out) = Len(acc))
  /\ [][ (pc = "drain" /\ Buffer.available = 0 /\ call'.op = "drain") =>
           (call'.odone = 0 /\ Buffer'.available = 0 /\ out' = out) ]_vars

C7_Final ==
  IsFinal /\ Len(out) = Len(acc) /\ Len(out) > Buffer.size \div 2

\* the stream positions of the buffered samples, oldest first
Keys(buffer) == [j \in 1 .. buffer.available |-> Buffered(buffer)[j].k]

\* C8: a flow call without room emits nothing and keeps every buffered and
\* every accepted sample buffered, in order; calls with room later emit all
\* of it in stream order.
C8_Backpressure ==
  /\ [][ (pc = "flow" /\ call'.op = "flow" /\ call'.osamp = 0) =>
           /\ call'.odone = 0 /\ out' = out
           /\ Keys(Buffer') = [j \in 1 .. Len(acc') - Len(out) |-> Len(out) + j]
           /\ Len(acc') = Len(acc) + call'.idone ]_vars
  /\ Running ~> (pc = "drain" /\ Len(out) = Len(acc))
  /\ [](\A k \in 1 .. Len(out) : out[k].k = k)

C8_HeldBack ==
  /\ call.op = "flow" /\ call.osamp = 0 /\ call.idone > 0
  /\ Buffer.processed > 0 /\ Len(out) > 0

\* the output of one flow call given all of input, then drained until empty
RECURSIVE DrainAll(_, _)
DrainAll(l, osamp) ==
  LET r == drain(l, osamp)
  IN IF r.odone = 0 THEN <<>> ELSE r.obuf \o DrainAll(r.l, osamp)

OneCall(input, l) ==
  LET fresh == [l EXCEPT !.gain = Unity, !.actions = 0, !.slices = 0,
                         !.rbuffer = create_ring_buffer(l.rbuffer.size * SampleBytes)]
      cells == [j \in 1 .. Len(input) |-> [EmptyCell EXCEPT !.v = input[j], !.k = j]]
      r     == flow(fresh, cells, Len(cells), 0)
  IN r.obuf \o DrainAll(r.l, l.rbuffer.size)

\* C1: when the stream has been drained, the output equals the output of one
\* flow call given the whole accepted input and drained.
C1_ChunkingInvariance ==
  (pc = "drain" /\ Buffer.available = 0 /\ Len(acc) <= Buffer.size) =>
     Values(out) = Values(OneCall(acc, priv))

\* C21: when ring_buffer_write, ring_buffer_mark_processed or ring_buffer_pop
\* returns -1 inside a flow or drain call, that call reports SOX_EOF; a drain
\* call in which ring_buffer_mark_processed failed emits nothing after it.
C21_FailuresSurfaced ==
  (call.op \in {"flow", "drain"} /\ priv.failed # {}) =>
     /\ call.status = SOX_EOF
     /\ (call.op = "drain" /\ "mark_processed" \in priv.failed) => call.odone = 0

\* the cells the caller receives from or is still owed by the buffer, oldest first
Pending(buffer, emitted) == emitted \o Buffered(buffer)

\* C22: the pass "Process remaining data using current gain" of a drain call
\* leaves every sample that is marked processed when the pass begins at the
\* value it has then; the call emits it, or keeps it buffered, with that value.
C22_DrainTailOnly ==
  [][ (Running /\ call'.op = "drain") =>
        LET l1 == process_our_buffer(priv)
            before == Buffered(l1.rbuffer)
            after  == Pending(Buffer', SubSeq(out', Len(out) + 1, Len(out')))
        IN \A j \in 1 .. l1.rbuffer.processed : after[j].v = before[j].v ]_vars

\* C23: a flow call that is offered at least one frame and has room for at
\* least one sample accepts or emits a sample; while the limiter runs the
\* buffer is never full with nothing processed.
C23_NoStall ==
  /\ (call.op = "flow" /\ call.isamp >= 1 /\ call.osamp >= 1) =>
        (call.idone > 0 \/ call.odone > 0)
  /\ Running => ~(Buffer.available = Buffer.size /\ Buffer.processed = 0)

\* C24: every iteration of the slicing loop inside a flow or drain call
\* advances processed by at least one whole frame, and processed never
\* exceeds available; so the loop of a call ends after at most one iteration
\* per frame that was unprocessed when it began.
C24_BoundedWork ==
  /\ [](Running =>
          /\ \A j \in 1 .. Len(priv.steps) :
                /\ priv.steps[j] >= NUMBER_OF_CHANNELS
                /\ priv.steps[j] % NUMBER_OF_CHANNELS = 0
          /\ Buffer.processed <= Buffer.available)
  /\ [][ (Running /\ call'.op \in {"flow", "drain"}) =>
           NUMBER_OF_CHANNELS * Len(priv'.steps) <=
             ring_buffer_get_unprocessed(Buffer) + call'.idone ]_vars

C24_SlicedTwice ==
  /\ call.op = "flow" /\ Len(priv.steps) > 1
  /\ Buffer.processed < Buffer.available

====
